---- MODULE Spec2Model ----
(***************************************************************************)
(* Model of src/main.py: class Sudoku (constructor, atom registry, SAT     *)
(* encoding and decoding, constraint checker, backtracking search).        *)
(*                                                                         *)
(* The class constants are instantiated at the 4x4 Sudoku (GRID_LEN = 4,   *)
(* SUBGRID_LEN = 2, MAX_NUMBER = 4) instead of the source's 9/3/9: every   *)
(* loop of the source is written over these three names, and the 4x4       *)
(* instance keeps the model finite.  Rows and columns are 0-based as in    *)
(* the source; a grid is a sequence of rows, so grid[row][col] of the      *)
(* source is Cell(grid, row, col) here.                                    *)
(*                                                                         *)
(* Python objects that can alias (the nested lists holding a grid) live in *)
(* a heap: a function from references to grid contents.  copy.deepcopy     *)
(* allocates a new reference; objects nothing refers to any more are       *)
(* dropped from the heap.                                                  *)
(***************************************************************************)
EXTENDS Integers, Sequences, FiniteSets, TLC

GRID_LEN == 4
SUBGRID_LEN == 2
MAX_NUMBER == 4

\* Bounds of the model
MaxBlanks == 2      \* cells of ExtraCells blanked in a drawn grid
MaxCalls == 2       \* solve calls made on one instance
MaxAtoms == 3       \* distinct triples registered in RegSpec

\* Python's None, where a reference to a grid is expected (references are 1, 2, ...)
None == 0

Rows == 0 .. (GRID_LEN - 1)
Cols == 0 .. (GRID_LEN - 1)
Numbers == 1 .. MAX_NUMBER
Methods == {"sat", "csp"}

Cell(grid, row, col) == grid[row + 1][col + 1]

SetCell(grid, row, col, number) ==
    [grid EXCEPT ![row + 1] = [@ EXCEPT ![col + 1] = number]]

(***************************************************************************)
(* Inputs.  A solved grid with the cells of one of BaseBlanks blanked      *)
(* (none; a rectangle whose digits can be swapped; two such rectangles),   *)
(* up to MaxBlanks of ExtraCells blanked as well, and at most one given    *)
(* overwritten by one of Overrides.  This gives grids with one completion, *)
(* with two or three, with none although the givens are consistent, and    *)
(* with a given repeated in a row only, a column only, a box only, or in   *)
(* several.  Malformed inputs (wrong number of rows, a row of the wrong    *)
(* length) are for the constructor.                                        *)
(***************************************************************************)
Solved ==
    << <<1, 2, 3, 4>>,
       <<3, 4, 1, 2>>,
       <<2, 1, 4, 3>>,
       <<4, 3, 2, 1>> >>

BaseBlanks ==
    { {},
      { <<0, 0>>, <<0, 2>>, <<1, 0>>, <<1, 2>> },
      { <<0, 0>>, <<0, 2>>, <<1, 0>>, <<1, 2>>, <<0, 1>>, <<2, 0>>, <<2, 1>> } }

ExtraCells == { <<3, 3>>, <<3, 0>>, <<1, 1>> }

Overrides == { << <<2, 2>>, 1 >>, << <<1, 3>>, 1 >> }

Puzzle(blanks, over) ==
    [i \in 1 .. GRID_LEN |->
        [j \in 1 .. GRID_LEN |->
            IF <<i - 1, j - 1>> \in blanks THEN 0
            ELSE IF over # << >> /\ over[1] = <<i - 1, j - 1>> THEN over[2]
            ELSE Solved[i][j]]]

WellFormed ==
    { Puzzle(base \cup extra, o) :
        base \in BaseBlanks,
        extra \in { s \in SUBSET ExtraCells : Cardinality(s) <= MaxBlanks },
        o \in { << >> } \cup Overrides }

Malformed ==
    { SubSeq(Solved, 1, GRID_LEN - 1),
      Solved \o << <<0, 0, 0, 0>> >>,
      [Solved EXCEPT ![2] = <<3, 4, 1>>],
      [Solved EXCEPT ![GRID_LEN] = <<4, 3, 2, 1, 0>>],
      [Solved EXCEPT ![1] = <<>>],
      << >> }

Inputs == WellFormed \cup Malformed

VARIABLES
    pc,        \* where the caller is: "new", "raised", "idle", "csp", ...
    input,     \* the grid handed to the constructor
    sudoku,    \* the instance under test, with its heap and call stack
    fresh,     \* a fresh instance of the same grid, run beside it
    oracle,    \* what the SAT oracle answered, per clause set
    model,     \* the model the oracle returned to the last solve_as_sat
    calls,     \* solve calls made so far
    last,      \* the method called last
    seen,      \* the triples looked up so far, each once, in first-lookup order
    ret        \* what the last __literal or __check_constraints call returned

vars == <<pc, input, sudoku, fresh, oracle, model, calls, last, seen, ret>>

(***************************************************************************)
(* Sudoku.__init__                                                         *)
(***************************************************************************)
DimensionsOkRowsOnly(grid) == Len(grid) = GRID_LEN

DimensionsOk(grid) ==
    /\ Len(grid) = GRID_LEN
    /\ \A i \in 1 .. Len(grid) : Len(grid[i]) = GRID_LEN

EmptyMap == [x \in {} |-> 0]

\* What the caller holds of a solve method: whether it has called it, and the
\* value the last call returned (None or a reference to a grid).
NotCalled == [called |-> FALSE, value |-> None]

Returned(value) == [called |-> TRUE, value |-> value]

\* No instance: the constructor has not run, or it raised.
NoInstance ==
    [grid |-> None, atom_id |-> EmptyMap, id_atom |-> EmptyMap,
     solution |-> None, solution_found |-> FALSE,
     heap |-> EmptyMap, stack |-> << >>,
     result |-> [m \in Methods |-> NotCalled]]

\* The caller's list object is reference 1; self.__grid refers to it.
NewSudoku(grid) ==
    [grid |-> 1, atom_id |-> EmptyMap, id_atom |-> EmptyMap,
     solution |-> None, solution_found |-> FALSE,
     heap |-> (1 :> grid), stack |-> << >>,
     result |-> [m \in Methods |-> NotCalled]]

(***************************************************************************)
(* The heap                                                                *)
(***************************************************************************)
NewRef(heap) == CHOOSE r \in 1 .. (Cardinality(DOMAIN heap) + 1) : r \notin DOMAIN heap

Reachable(o) ==
    ({o.grid, o.solution} \cup { o.result[m].value : m \in Methods }
       \cup { o.stack[i].grid : i \in DOMAIN o.stack }
       \cup { o.stack[i].candidate : i \in DOMAIN o.stack })
    \cap DOMAIN o.heap

Collect(o) == [o EXCEPT !.heap = [r \in Reachable(o) |-> o.heap[r]]]

(***************************************************************************)
(* Sudoku.__check_constraints                                              *)
(***************************************************************************)
\* numbers_count == len(numbers) for the entries of one row, column or box
UnitOk(entries) ==
    LET nonzero == SelectSeq(entries, LAMBDA e : e # 0)
        numbers == { nonzero[i] : i \in DOMAIN nonzero }
    IN  Len(nonzero) = Cardinality(numbers)

RowEntries(grid, i) == grid[i]

ColEntries(grid, col) == [i \in 1 .. Len(grid) |-> grid[i][col + 1]]

\* range(0, GRID_LEN, SUBGRID_LEN)
SubgridStarts == { s \in 0 .. (GRID_LEN - 1) : s % SUBGRID_LEN = 0 }

BoxEntries(grid, rowS, colS) ==
    [k \in 1 .. (SUBGRID_LEN * SUBGRID_LEN) |->
        Cell(grid, rowS + ((k - 1) \div SUBGRID_LEN), colS + ((k - 1) % SUBGRID_LEN))]

CheckRowsOnly(grid) == \A i \in 1 .. Len(grid) : UnitOk(RowEntries(grid, i))

CheckNoBoxes(grid) ==
    /\ \A i \in 1 .. Len(grid) : UnitOk(RowEntries(grid, i))
    /\ \A col \in Cols : UnitOk(ColEntries(grid, col))

CheckConstraints(grid) ==
    /\ \A i \in 1 .. Len(grid) : UnitOk(RowEntries(grid, i))
    /\ \A col \in Cols : UnitOk(ColEntries(grid, col))
    /\ \A rowS \in SubgridStarts : \A colS \in SubgridStarts :
          UnitOk(BoxEntries(grid, rowS, colS))

(***************************************************************************)
(* Sudoku.__csp_search, one step of the frame on top of the call stack.    *)
(* A frame is one activation: its arguments grid, row, col, its local      *)
(* candidate, the loop variable number, and where it is:                   *)
(*   "enter"  at the first line;                                           *)
(*   "given"  inside the recursive call made for a given cell;             *)
(*   "loop"   at the head of the for loop, about to try `number`.          *)
(***************************************************************************)
Frame(grid, row, col) ==
    [grid |-> grid, row |-> row, col |-> col,
     candidate |-> None, number |-> 1, at |-> "enter"]

\* the cursor of the recursive call
NextRow(row, col) == IF col = GRID_LEN - 1 THEN row + 1 ELSE row

NextCol(row, col) == IF col = GRID_LEN - 1 THEN 0 ELSE col + 1

Top(o) == o.stack[Len(o.stack)]

Pop(o) == [o EXCEPT !.stack = SubSeq(@, 1, Len(@) - 1)]

SetTop(o, f) == [o EXCEPT !.stack[Len(o.stack)] = f]

Push(o, f) == [o EXCEPT !.stack = Append(@, f)]

\* lines 173-189: the checks at entry and the given-cell case
CspEnterNoShortCircuit(o) ==
    LET f == Top(o) IN
    IF ~CheckConstraints(o.heap[f.grid]) THEN Pop(o)
    ELSE IF f.row = GRID_LEN
        THEN Pop([o EXCEPT !.solution_found = TRUE, !.solution = f.grid])
    ELSE IF Cell(o.heap[o.grid], f.row, f.col) # 0
        THEN Push(SetTop(o, [f EXCEPT !.at = "given"]),
                  Frame(f.grid, NextRow(f.row, f.col), NextCol(f.row, f.col)))
    ELSE SetTop(o, [f EXCEPT !.at = "loop"])

CspEnter(o) ==
    LET f == Top(o) IN
    IF o.solution_found THEN Pop(o)
    ELSE IF ~CheckConstraints(o.heap[f.grid]) THEN Pop(o)
    ELSE IF f.row = GRID_LEN
        THEN Pop([o EXCEPT !.solution_found = TRUE, !.solution = f.grid])
    ELSE IF Cell(o.heap[o.grid], f.row, f.col) # 0
        THEN Push(SetTop(o, [f EXCEPT !.at = "given"]),
                  Frame(f.grid, NextRow(f.row, f.col), NextCol(f.row, f.col)))
    ELSE SetTop(o, [f EXCEPT !.at = "loop"])

\* lines 191-197 with the digit written into grid itself, not into a copy
CspLoopNoCopy(o) ==
    LET f == Top(o) IN
    IF f.number > MAX_NUMBER THEN Pop(o)
    ELSE Push([SetTop(o, [f EXCEPT !.candidate = f.grid, !.number = f.number + 1])
                  EXCEPT !.heap[f.grid] = SetCell(o.heap[f.grid], f.row, f.col, f.number)],
              Frame(f.grid, NextRow(f.row, f.col), NextCol(f.row, f.col)))

\* lines 191-197: one iteration of the for loop, or its end
CspLoop(o) ==
    LET f == Top(o)
        candidate == NewRef(o.heap)
    IN
    IF f.number > MAX_NUMBER THEN Pop(o)
    ELSE Push([SetTop(o, [f EXCEPT !.candidate = candidate, !.number = f.number + 1])
                  EXCEPT !.heap = candidate :> SetCell(o.heap[f.grid], f.row, f.col, f.number)
                                    @@ o.heap],
              Frame(candidate, NextRow(f.row, f.col), NextCol(f.row, f.col)))

\* One step of the search; a search that has returned stays as it is.
CspStep(o) ==
    IF o.stack = << >> THEN o
    ELSE Collect(CASE Top(o).at = "enter" -> CspEnter(o)
                   [] Top(o).at = "given" -> Pop(o)
                   [] Top(o).at = "loop" -> CspLoop(o))

(***************************************************************************)
(* Sudoku.solve_as_csp: lines 203-206 start the search, line 211 returns.  *)
(***************************************************************************)
CspCallNoReset(o) == Collect([o EXCEPT !.stack = << Frame(o.grid, 0, 0) >>])

CspCall(o) ==
    Collect([o EXCEPT !.solution = None, !.solution_found = FALSE,
                      !.stack = << Frame(o.grid, 0, 0) >>])

CspReturn(o) == Collect([o EXCEPT !.result["csp"] = Returned(o.solution)])

(***************************************************************************)
(* Sudoku.__atom and Sudoku.__literal.  The registry is the pair of dicts  *)
(* self.__atom_id and self.__id_atom; a triple is <<row, col, number>>.    *)
(***************************************************************************)
\* dict[key] = value
Put(map, key, value) == (key :> value) @@ map

\* __atom with lines 46 and 47 in the other order: the id is stored first,
\* and id_atom is then filled under the new length plus one
AtomLinesSwapped(o, triple) ==
    IF triple \in DOMAIN o.atom_id THEN o
    ELSE LET id == Cardinality(DOMAIN o.atom_id) + 1 IN
         [o EXCEPT !.atom_id = Put(o.atom_id, triple, id),
                   !.id_atom = Put(o.id_atom, id + 1, triple)]

\* the instance after self.__atom(row, col, number)
Atom(o, triple) ==
    IF triple \in DOMAIN o.atom_id THEN o
    ELSE LET id == Cardinality(DOMAIN o.atom_id) + 1 IN
         [o EXCEPT !.id_atom = Put(o.id_atom, id, triple),
                   !.atom_id = Put(o.atom_id, triple, id)]

\* the id self.__atom(row, col, number) returns
AtomId(o, triple) == Atom(o, triple).atom_id[triple]

Digits == << "0", "1", "2", "3", "4", "5", "6", "7", "8", "9" >>

DigitValue(char) == (CHOOSE d \in DOMAIN Digits : Digits[d] = char) - 1

\* str(n) for n >= 0, as the sequence of its characters
RECURSIVE Str(_)
Str(n) ==
    IF n < 10 THEN << Digits[n + 1] >>
    ELSE Append(Str(n \div 10), Digits[(n % 10) + 1])

RECURSIVE Decimal(_)
Decimal(chars) ==
    IF chars = << >> THEN 0
    ELSE 10 * Decimal(SubSeq(chars, 1, Len(chars) - 1))
            + DigitValue(chars[Len(chars)])

\* int(s) for s an optional "-" followed by decimal digits
ParseInt(s) ==
    IF s # << >> /\ s[1] = "-" THEN 0 - Decimal(Tail(s)) ELSE Decimal(s)

\* the number self.__literal(x, y, number, negation) returns
Literal(o, triple, negation) ==
    ParseInt((IF negation THEN << "-" >> ELSE << >>) \o Str(AtomId(o, triple)))

(***************************************************************************)
(* Sudoku.solve_as_sat, lines 75-114: the clauses, in the order the loops  *)
(* add them.  A clause request is the sequence of the __literal calls that *)
(* build one clause, each <<row, col, number, negation>>.                  *)
(***************************************************************************)
RECURSIVE Product(_)
Product(dims) == IF dims = << >> THEN 1 ELSE Head(dims) * Product(Tail(dims))

\* The k-th (from 0) tuple of nested for loops over range(dims[1]), range(dims[2]), ...
LoopIndex(k, dims) ==
    [i \in 1 .. Len(dims) |->
        (k \div Product(SubSeq(dims, i + 1, Len(dims)))) % dims[i]]

\* All tuples of the nested loops, in the order the loops run
Loops(dims) == [k \in 1 .. Product(dims) |-> LoopIndex(k - 1, dims)]

\* lines 76-78: one unit clause per cell, for the cell's entry whatever it is
GivenClauses(grid) ==
    [k \in 1 .. (GRID_LEN * GRID_LEN) |->
        LET row == (k - 1) \div GRID_LEN
            col == (k - 1) % GRID_LEN
        IN  << <<row, col, Cell(grid, row, col), FALSE>> >>]

\* lines 81-86
CellClauses ==
    [k \in 1 .. (GRID_LEN * GRID_LEN) |->
        LET row == (k - 1) \div GRID_LEN
            col == (k - 1) % GRID_LEN
        IN  [number \in 1 .. MAX_NUMBER |-> <<row, col, number, FALSE>>]]

\* lines 89-94: t = <<row, colA, colB, number - 1>>
RowClauses ==
    LET all == Loops(<<GRID_LEN, GRID_LEN, GRID_LEN, MAX_NUMBER>>)
        kept == SelectSeq(all, LAMBDA t : t[3] >= t[2] + 1)
    IN  [k \in DOMAIN kept |->
            LET t == kept[k] IN
            << <<t[1], t[2], t[4] + 1, TRUE>>, <<t[1], t[3], t[4] + 1, TRUE>> >>]

\* lines 97-102 with the column clauses left out
NoColClauses == << >>

\* lines 97-102: t = <<col, rowA, rowB, number - 1>>
ColClauses ==
    LET all == Loops(<<GRID_LEN, GRID_LEN, GRID_LEN, MAX_NUMBER>>)
        kept == SelectSeq(all, LAMBDA t : t[3] >= t[2] + 1)
    IN  [k \in DOMAIN kept |->
            LET t == kept[k] IN
            << <<t[2], t[1], t[4] + 1, TRUE>>, <<t[3], t[1], t[4] + 1, TRUE>> >>]

\* lines 105-114: t = <<rowS, colS, rowA, colA, rowB, colB, number - 1>>, the
\* first two counted in boxes and the next four from the box's corner
BoxClauses ==
    LET boxes == GRID_LEN \div SUBGRID_LEN
        all == Loops(<<boxes, boxes, SUBGRID_LEN, SUBGRID_LEN,
                       SUBGRID_LEN, SUBGRID_LEN, MAX_NUMBER>>)
        kept == SelectSeq(all,
                    LAMBDA t : t[5] > t[3] \/ (t[5] = t[3] /\ t[6] > t[4]))
    IN  [k \in DOMAIN kept |->
            LET t == kept[k]
                rowS == t[1] * SUBGRID_LEN
                colS == t[2] * SUBGRID_LEN
            IN  << <<rowS + t[3], colS + t[4], t[7] + 1, TRUE>>,
                   <<rowS + t[5], colS + t[6], t[7] + 1, TRUE>> >>]

ClauseRequests(grid) ==
    GivenClauses(grid) \o CellClauses \o RowClauses \o ColClauses \o BoxClauses

\* The __literal calls of one clause, left to right: the instance afterwards
\* and the clause built.
RECURSIVE AddLiterals(_, _, _)
AddLiterals(o, request, clause) ==
    IF request = << >> THEN [o |-> o, clause |-> clause]
    ELSE LET r == Head(request)
             triple == <<r[1], r[2], r[3]>>
         IN  AddLiterals(Atom(o, triple), Tail(request),
                         Append(clause, Literal(o, triple, r[4])))

\* solver.add_clause for the requests lo..hi, in this order (the range is
\* halved to keep the evaluation shallow); acc is the instance and the
\* solver's clauses so far
RECURSIVE AddClauses(_, _, _, _)
AddClauses(acc, requests, lo, hi) ==
    IF lo > hi THEN acc
    ELSE IF lo = hi
        THEN LET one == AddLiterals(acc.o, requests[lo], << >>) IN
             [o |-> one.o, clauses |-> Append(acc.clauses, one.clause)]
    ELSE LET mid == (lo + hi) \div 2
             left == AddClauses(acc, requests, lo, mid)
         IN  \* the test makes TLC evaluate the first half before the second
             IF Len(left.clauses) = 0 THEN left
             ELSE AddClauses(left, requests, mid + 1, hi)

\* lines 73-114: the instance after the encoding and the solver's clauses
Encode(o) ==
    LET requests == ClauseRequests(o.heap[o.grid]) IN
    AddClauses([o |-> o, clauses |-> << >>], requests, 1, Len(requests))

(***************************************************************************)
(* The SAT oracle (pysat's Glucose3, lines 116 and 121): solve() says      *)
(* whether the clauses have a model; get_model() is one of them, the list  *)
(* of the variables 1..n each with its sign, in this order.                *)
(***************************************************************************)
Abs(x) == IF x < 0 THEN 0 - x ELSE x

MaxVar(clause) ==
    CHOOSE v \in { Abs(clause[i]) : i \in DOMAIN clause } :
        \A i \in DOMAIN clause : Abs(clause[i]) <= v

ClauseSet(clauses) == { clauses[i] : i \in DOMAIN clauses }

\* the solver's number of variables: the largest one in a clause
NofVars(clauses) ==
    LET used == UNION { { Abs(clauses[i][j]) : j \in DOMAIN clauses[i] } :
                          i \in DOMAIN clauses }
    IN
    IF clauses = << >> THEN 0 ELSE CHOOSE v \in used : \A w \in used : w <= v

\* assignment gives a sign to the variables of clause
Satisfies(assignment, clause) ==
    \E i \in DOMAIN clause : assignment[Abs(clause[i])] = clause[i]

\* The models that extend prefix: variable by variable, giving up a prefix
\* as soon as it falsifies a clause all of whose variables it assigns.
RECURSIVE Extensions(_, _, _)
Extensions(prefix, n, byMax) ==
    IF Len(prefix) = n THEN { prefix }
    ELSE LET v == Len(prefix) + 1
             ok == { a \in { Append(prefix, v), Append(prefix, 0 - v) } :
                        \A c \in byMax[v] : Satisfies(a, c) }
         IN  UNION { Extensions(a, n, byMax) : a \in ok }

\* every model of the clauses
Models(clauses) ==
    LET n == NofVars(clauses)
        last_ == [i \in DOMAIN clauses |-> MaxVar(clauses[i])] @@ EmptyMap
        byMax == [v \in 1 .. n |->
                     { clauses[i] : i \in { j \in DOMAIN clauses : last_[j] = v } }]
                 @@ EmptyMap
    IN  Extensions(<< >>, n, byMax)

\* solve() returned False: no model
Unsat == << >>

\* What the oracle may answer for the clauses, having answered `memo` before:
\* the same again for the same clause set, else any model, or Unsat if none.
Answers(clauses, memo) ==
    IF ClauseSet(clauses) \in DOMAIN memo THEN { memo[ClauseSet(clauses)] }
    ELSE LET ms == Models(clauses) IN IF ms = {} THEN { Unsat } ELSE ms

(***************************************************************************)
(* Sudoku.solve_as_sat, lines 119-130: the decoder.                        *)
(***************************************************************************)
\* lines 122-125 for the values lo..hi of the model, in this order
RECURSIVE Decode(_, _, _, _, _)
Decode(solution, id_atom, values, lo, hi) ==
    IF lo > hi THEN solution
    ELSE IF lo = hi
        THEN IF values[lo] > 0
                THEN LET triple == id_atom[values[lo]] IN
                     SetCell(solution, triple[1], triple[2], triple[3])
                ELSE solution
    ELSE LET mid == (lo + hi) \div 2
             left == Decode(solution, id_atom, values, lo, mid)
         IN  \* the test makes TLC evaluate the first half before the second
             IF left = << >> THEN left
             ELSE Decode(left, id_atom, values, mid + 1, hi)

\* lines 122-125 reading the model from its last value to its first
DecodedBackwards(o, values) ==
    Decode(o.heap[o.grid], o.id_atom,
           [k \in DOMAIN values |-> values[Len(values) + 1 - k]], 1, Len(values))

\* lines 120-125: the contents of the decoded grid
Decoded(o, values) == Decode(o.heap[o.grid], o.id_atom, values, 1, Len(values))

\* lines 119-130: the model is decoded into a copy of the given grid
SatFound(o, values) ==
    LET solution == NewRef(o.heap) IN
    Collect([o EXCEPT !.solution_found = TRUE, !.solution = solution,
                      !.heap = solution :> Decoded(o, values) @@ o.heap,
                      !.result["sat"] = Returned(solution)])

\* lines 70-71 and 116-130, the encoding done: answer is the oracle's
SatFinish(o, answer) ==
    LET reset == [o EXCEPT !.solution = None, !.solution_found = FALSE] IN
    IF answer = Unsat THEN Collect([reset EXCEPT !.result["sat"] = Returned(None)])
    ELSE SatFound(reset, answer)

(***************************************************************************)
(* The triples of a run of __literal calls that `known` does not hold, in  *)
(* the order of their first lookup.                                        *)
(***************************************************************************)
RECURSIVE FirstLookups(_, _, _, _)
FirstLookups(triples, lo, hi, known) ==
    IF lo > hi THEN known
    ELSE IF lo = hi
        THEN IF \E i \in DOMAIN known : known[i] = triples[lo]
                THEN known
                ELSE Append(known, triples[lo])
    ELSE LET mid == (lo + hi) \div 2
             left == FirstLookups(triples, lo, mid, known)
         IN  \* the test makes TLC evaluate the first half before the second
             IF left = << >> THEN left
             ELSE FirstLookups(triples, mid + 1, hi, left)

RECURSIVE Flatten(_, _, _)
Flatten(seqs, lo, hi) ==
    IF lo > hi THEN << >>
    ELSE IF lo = hi THEN seqs[lo]
    ELSE LET mid == (lo + hi) \div 2 IN
         Flatten(seqs, lo, mid) \o Flatten(seqs, mid + 1, hi)

\* the triples solve_as_sat looks up, in the order of the lookups
LookedUp(grid) ==
    LET requests == ClauseRequests(grid)
        all == Flatten(requests, 1, Len(requests))
    IN  [k \in DOMAIN all |-> <<all[k][1], all[k][2], all[k][3]>>]

(***************************************************************************)
(* The specification: the constructor, then up to MaxCalls solve calls.    *)
(* A fresh instance of the same grid makes every call beside the instance  *)
(* under test, asking the same oracle.                                     *)
(***************************************************************************)
Init ==
    /\ pc = "new"
    /\ input \in Inputs
    /\ sudoku = NoInstance
    /\ fresh = NoInstance
    /\ oracle = EmptyMap
    /\ model = << >>
    /\ calls = 0
    /\ last = "none"
    /\ seen = << >>
    /\ ret = 0

\* Sudoku(grid), lines 16-32
Construct ==
    /\ pc = "new"
    /\ IF DimensionsOk(input)
          THEN /\ pc' = "idle"
               /\ sudoku' = NewSudoku(input)
          ELSE /\ pc' = "raised"
               /\ sudoku' = sudoku
    /\ UNCHANGED <<input, fresh, oracle, model, calls, last, seen, ret>>

\* solve_as_sat(), lines 60-130
SolveAsSat ==
    /\ pc = "idle"
    /\ calls < MaxCalls
    /\ \E mine \in { Encode(sudoku) }, other \in { Encode(NewSudoku(input)) } :
       \E answer \in Answers(mine.clauses, oracle) :
       \E memo \in { Put(oracle, ClauseSet(mine.clauses), answer) } :
       \E answer2 \in Answers(other.clauses, memo) :
           /\ sudoku' = SatFinish(mine.o, answer)
           /\ fresh' = SatFinish(other.o, answer2)
           /\ oracle' = Put(memo, ClauseSet(other.clauses), answer2)
           /\ model' = answer
           /\ ret' = mine.clauses[Len(mine.clauses)][2]
    /\ \E triples \in { LookedUp(sudoku.heap[sudoku.grid]) } :
           seen' = FirstLookups(triples, 1, Len(triples), seen)
    /\ calls' = calls + 1
    /\ last' = "sat"
    /\ UNCHANGED <<pc, input>>

\* solve_as_csp(), lines 199-206: the call of __csp_search
SolveAsCsp ==
    /\ pc = "idle"
    /\ calls < MaxCalls
    /\ pc' = "csp"
    /\ sudoku' = CspCall(sudoku)
    /\ fresh' = CspCall(NewSudoku(input))
    /\ calls' = calls + 1
    /\ last' = "csp"
    /\ UNCHANGED <<input, oracle, model, seen, ret>>

\* __csp_search, lines 172-197: one step
CspSearch ==
    /\ pc = "csp"
    /\ sudoku.stack # << >> \/ fresh.stack # << >>
    /\ sudoku' = CspStep(sudoku)
    /\ fresh' = CspStep(fresh)
    /\ UNCHANGED <<pc, input, oracle, model, calls, last, seen, ret>>

\* solve_as_csp(), line 211: return self.__solution
SolveAsCspReturn ==
    /\ pc = "csp"
    /\ sudoku.stack = << >> /\ fresh.stack = << >>
    /\ pc' = "idle"
    /\ sudoku' = CspReturn(sudoku)
    /\ fresh' = CspReturn(fresh)
    /\ UNCHANGED <<input, oracle, model, calls, last, seen, ret>>

Next ==
    \/ Construct
    \/ SolveAsSat
    \/ SolveAsCsp
    \/ CspSearch
    \/ SolveAsCspReturn

Spec == Init /\ [][Next]_vars

(***************************************************************************)
(* RegSpec: the atom registry under __literal calls for any triples, in    *)
(* any order and with repetitions, made before the solve_as_sat calls of   *)
(* one instance.                                                           *)
(***************************************************************************)
RegInputs ==
    { Solved, Puzzle({ <<0, 0>>, <<0, 2>>, <<1, 0>>, <<1, 2>> }, << >>) }

RegTriples == { <<0, 0, 0>>, <<0, 0, 1>>, <<3, 3, 1>> }

RegInit ==
    /\ pc = "idle"
    /\ input \in RegInputs
    /\ sudoku = NewSudoku(input)
    /\ fresh = NoInstance
    /\ oracle = EmptyMap
    /\ model = << >>
    /\ calls = 0
    /\ last = "none"
    /\ seen = << >>
    /\ ret = 0

\* self.__literal(x, y, number, negation), lines 50-58
LiteralCall ==
    /\ pc = "idle"
    /\ Cardinality(DOMAIN sudoku.atom_id) < MaxAtoms
    /\ \E triple \in RegTriples, negation \in BOOLEAN :
           /\ ret' = Literal(sudoku, triple, negation)
           /\ sudoku' = Atom(sudoku, triple)
           /\ seen' = FirstLookups(<< triple >>, 1, 1, seen)
    /\ last' = "literal"
    /\ UNCHANGED <<pc, input, fresh, oracle, model, calls>>

RegNext ==
    \/ LiteralCall
    \/ SolveAsSat

RegSpec == RegInit /\ [][RegNext]_vars

(***************************************************************************)
(* CheckSpec: __check_constraints applied to a grid.  The grids are empty  *)
(* but for the cells CheckCells, which hold any entries: two of them share *)
(* only a row, two only a column, two only a box.                          *)
(***************************************************************************)
CheckCells == << <<0, 0>>, <<1, 1>>, <<2, 0>>, <<0, 3>>, <<2, 3>> >>

CheckGrids ==
    { [i \in 1 .. GRID_LEN |->
          [j \in 1 .. GRID_LEN |->
              IF \E k \in DOMAIN CheckCells : CheckCells[k] = <<i - 1, j - 1>>
                  THEN entries[CHOOSE k \in DOMAIN CheckCells :
                                   CheckCells[k] = <<i - 1, j - 1>>]
                  ELSE 0]] :
        entries \in [DOMAIN CheckCells -> 0 .. MAX_NUMBER] }

CheckInit ==
    /\ pc = "check"
    /\ input \in CheckGrids
    /\ sudoku = NewSudoku(input)
    /\ fresh = NoInstance
    /\ oracle = EmptyMap
    /\ model = << >>
    /\ calls = 0
    /\ last = "none"
    /\ seen = << >>
    /\ ret = FALSE

\* self.__check_constraints(grid), lines 132-170: it reads the grid only
CheckConstraintsCall ==
    /\ pc = "check"
    /\ pc' = "checked"
    /\ ret' = CheckConstraints(sudoku.heap[sudoku.grid])
    /\ UNCHANGED <<input, sudoku, fresh, oracle, model, calls, last, seen>>

CheckNext == CheckConstraintsCall

CheckSpec == CheckInit /\ [][CheckNext]_vars

(***************************************************************************)
(* What the claims speak of: the rules of Sudoku, stated cell by cell, and *)
(* the valid completions of a grid.                                        *)
(***************************************************************************)
CellPairs == (Rows \X Cols) \X (Rows \X Cols)

SameUnit(a, b) ==
    \/ a[1] = b[1]
    \/ a[2] = b[2]
    \/ /\ a[1] \div SUBGRID_LEN = b[1] \div SUBGRID_LEN
       /\ a[2] \div SUBGRID_LEN = b[2] \div SUBGRID_LEN

\* the pairs of distinct cells in one row, one column or one box
UnitPairs == { p \in CellPairs : p[1] # p[2] /\ SameUnit(p[1], p[2]) }

\* no non-zero digit occurs twice in a row, a column or a box
NoRepeat(grid) ==
    \A p \in UnitPairs :
        Cell(grid, p[1][1], p[1][2]) # 0
            => Cell(grid, p[1][1], p[1][2]) # Cell(grid, p[2][1], p[2][2])

IsGrid(grid) ==
    /\ Len(grid) = GRID_LEN
    /\ \A i \in DOMAIN grid : Len(grid[i]) = GRID_LEN

NoBlank(grid) == \A row \in Rows, col \in Cols : Cell(grid, row, col) \in Numbers

HasBlank(grid) == \E row \in Rows, col \in Cols : Cell(grid, row, col) = 0

KeepsGivens(grid, given) ==
    \A row \in Rows, col \in Cols :
        Cell(given, row, col) # 0 => Cell(grid, row, col) = Cell(given, row, col)

\* The valid completions of grid that fill its blanks from the k-th cell on
\* (cells counted row by row); a grid with a repeat has none.
RECURSIVE Fillings(_, _)
Fillings(grid, k) ==
    LET row == (k - 1) \div GRID_LEN
        col == (k - 1) % GRID_LEN
    IN  IF ~NoRepeat(grid) THEN {}
        ELSE IF k > GRID_LEN * GRID_LEN THEN { grid }
        ELSE IF Cell(grid, row, col) # 0 THEN Fillings(grid, k + 1)
        ELSE UNION { Fillings(SetCell(grid, row, col, number), k + 1) :
                        number \in Numbers }

Completions(grid) == Fillings(grid, 1)

\* the cells of a grid, row by row
Flat(grid) == [k \in 1 .. (GRID_LEN * GRID_LEN) |->
                  Cell(grid, (k - 1) \div GRID_LEN, (k - 1) % GRID_LEN)]

LexLess(a, b) ==
    \E k \in DOMAIN a :
        /\ a[k] < b[k]
        /\ \A j \in 1 .. (k - 1) : a[j] = b[j]

Smallest(grids) ==
    CHOOSE g \in grids : \A h \in grids : h = g \/ LexLess(Flat(g), Flat(h))

\* the grid a solve method returned to the caller, << >> for None
Content(o, method) ==
    IF o.result[method].value = None THEN << >>
    ELSE o.heap[o.result[method].value]

(***************************************************************************)
(* The claims                                                              *)
(***************************************************************************)

\* C1 (Spec): whatever model the oracle returns, the grid solve_as_sat decodes
\* from it has no blank cell, no digit twice in a row, a column or a box, and
\* the given grid's digit in every cell the given grid fills.
C1_EncodingSoundness ==
    (pc = "idle" /\ last = "sat" /\ sudoku.result["sat"].value # None)
        => LET grid == Content(sudoku, "sat") IN
           /\ IsGrid(grid)
           /\ NoBlank(grid)
           /\ NoRepeat(grid)
           /\ KeepsGivens(grid, input)

\* solve_as_sat has decoded a model for a grid with blank cells
C1_Witness ==
    /\ pc = "idle" /\ last = "sat"
    /\ sudoku.result["sat"].value # None
    /\ HasBlank(input)

\* C2 (Spec): on a grid with exactly one valid completion, solve_as_sat and
\* solve_as_csp both return a grid, and the two grids are equal cell for cell.
C2_StrategiesAgree ==
    (/\ pc = "idle"
     /\ sudoku.result["sat"].called /\ sudoku.result["csp"].called
     /\ Cardinality(Completions(input)) = 1)
        => /\ sudoku.result["sat"].value # None
           /\ sudoku.result["csp"].value # None
           /\ Content(sudoku, "sat") = Content(sudoku, "csp")

\* both methods have returned on a grid with blanks and one completion
C2_Witness ==
    /\ pc = "idle"
    /\ sudoku.result["sat"].called /\ sudoku.result["csp"].called
    /\ HasBlank(input)
    /\ Cardinality(Completions(input)) = 1

\* C3 (Spec): on a grid with no valid completion (its givens repeat, or they
\* do not but no filling works) every solve call returns None, and no call
\* raises: the only state an error leads to is the constructor's.
C3_UnsatisfiableAgreement ==
    (pc \in {"idle", "raised"} /\ IsGrid(input) /\ Completions(input) = {})
        => /\ pc # "raised"
           /\ \A method \in Methods :
                  sudoku.result[method].called
                      => sudoku.result[method].value = None

\* both methods have returned on a grid whose givens are consistent and that
\* has no completion
C3_Witness ==
    /\ pc = "idle"
    /\ sudoku.result["sat"].called /\ sudoku.result["csp"].called
    /\ NoRepeat(input)
    /\ Completions(input) = {}

\* C4 (Spec): whatever solve calls came before on the instance, a solve call
\* returns what the same call returns on a fresh instance of the same grid
\* (the oracle answering the same clause set with the same model), and a
\* search starts with the flag down and no solution recorded.
C4_Idempotence ==
    /\ (pc = "idle" /\ last \in Methods)
          => /\ sudoku.result[last].called /\ fresh.result[last].called
             /\ (sudoku.result[last].value = None) = (fresh.result[last].value = None)
             /\ Content(sudoku, last) = Content(fresh, last)
    /\ (pc = "csp" /\ sudoku.stack = << Frame(sudoku.grid, 0, 0) >>)
          => /\ ~sudoku.solution_found
             /\ sudoku.solution = None

\* a second call has returned a grid, on a grid with several completions,
\* after a call of the other method
C4_Witness ==
    /\ pc = "idle" /\ calls >= 2 /\ last = "csp"
    /\ sudoku.result["sat"].value # None
    /\ sudoku.result["csp"].value # None
    /\ Cardinality(Completions(input)) > 1

\* C5 (Spec): no step of the constructor, of solve_as_sat or of the search
\* changes the contents of the given grid or of any grid object that exists
\* before and after the step: digits are only ever written into an object the
\* step itself has just made by deepcopy.  So a grid passed to __csp_search
\* is, when the call returns, as it was when the call was made.
C5_GivenGridNeverMutated ==
    [][ /\ sudoku'.grid # None => sudoku'.heap[sudoku'.grid] = input'
        /\ \A r \in DOMAIN sudoku.heap \cap DOMAIN sudoku'.heap :
               sudoku'.heap[r] = sudoku.heap[r] ]_vars

\* the search is inside a call that was handed a copy with a digit placed
C5_Witness ==
    /\ pc = "csp"
    /\ \E i \in DOMAIN sudoku.stack :
           /\ sudoku.stack[i].candidate # None
           /\ sudoku.stack[i].candidate \in DOMAIN sudoku.heap
           /\ sudoku.heap[sudoku.stack[i].candidate]
                  # sudoku.heap[sudoku.stack[i].grid]

\* C6 (Spec): the constructor raises exactly when the grid has not GRID_LEN
\* rows of GRID_LEN entries each; when it raises, no instance state has been
\* set and nothing has been encoded or searched.
C6_DimensionValidation ==
    /\ pc = "raised"
          => /\ ~IsGrid(input)
             /\ sudoku = NoInstance
             /\ calls = 0 /\ oracle = EmptyMap /\ seen = << >>
    /\ pc \notin {"new", "raised"} => IsGrid(input)

\* the constructor has raised for a grid with the right number of rows, one
\* of them of the wrong length
C6_Witness ==
    /\ pc = "raised"
    /\ Len(input) = GRID_LEN

\* C7 (Spec): in the model solve_as_sat got from the oracle, every cell has
\* at most one true atom among the atoms registered for the cell.
C7_AtMostOneTrueAtomPerCell ==
    (pc = "idle" /\ last = "sat" /\ model # << >>)
        => \A row \in Rows, col \in Cols :
               Cardinality({ v \in DOMAIN model :
                               /\ model[v] > 0
                               /\ sudoku.id_atom[v][1] = row
                               /\ sudoku.id_atom[v][2] = col }) <= 1

\* C8 (Spec): when the grid has a valid completion, solve_as_csp returns the
\* smallest one in row-major lexicographic order; and within one call, once
\* the flag is up it stays up and the recorded solution is not replaced.
C8_CspResult ==
    (pc = "idle" /\ last = "csp")
        => \A valid \in { Completions(input) } :
               valid # {}
                   => /\ sudoku.result["csp"].value # None
                      /\ Content(sudoku, "csp") = Smallest(valid)

C8_FirstFound ==
    [][ /\ pc' = "idle" => C8_CspResult'
        /\ (pc = "csp" /\ pc' = "csp" /\ sudoku.solution_found)
              => /\ sudoku'.solution_found
                 /\ sudoku'.solution = sudoku.solution
                 /\ sudoku'.heap[sudoku'.solution] = sudoku.heap[sudoku.solution] ]_vars

\* solve_as_csp has returned a grid for a grid with several completions
C8_Witness ==
    /\ pc = "idle" /\ last = "csp"
    /\ sudoku.result["csp"].value # None
    /\ Cardinality(Completions(input)) >= 2

\* C9 (RegSpec): after every lookup and every solve_as_sat, the registry
\* holds exactly the triples looked up so far, the i-th of them (in the order
\* of their first lookup) under id i, and id_atom is the inverse map; ids
\* once given never change; a __literal call for a triple already registered
\* leaves the registry as it is; no literal returned is 0.
C9_RegistryOk ==
    /\ DOMAIN sudoku.atom_id = { seen[i] : i \in DOMAIN seen }
    /\ DOMAIN sudoku.id_atom = DOMAIN seen
    /\ \A i \in DOMAIN seen :
           /\ sudoku.atom_id[seen[i]] = i
           /\ sudoku.id_atom[i] = seen[i]
    /\ \A i, j \in DOMAIN seen : seen[i] = seen[j] => i = j
    /\ ret # 0
    /\ Abs(ret) \in DOMAIN sudoku.id_atom

C9_AtomRegistry ==
    [][ /\ C9_RegistryOk'
        /\ \A triple \in DOMAIN sudoku.atom_id :
               /\ triple \in DOMAIN sudoku'.atom_id
               /\ sudoku'.atom_id[triple] = sudoku.atom_id[triple]
        /\ (last' = "literal" /\ Abs(ret') \in DOMAIN sudoku.id_atom)
              => /\ sudoku'.atom_id = sudoku.atom_id
                 /\ sudoku'.id_atom = sudoku.id_atom ]_vars

\* a __literal call has returned an id older than the newest one: a second
\* lookup of a triple
C9_Witness ==
    /\ last = "literal"
    /\ Len(seen) >= 2
    /\ Abs(ret) < Len(seen)

\* C10 (CheckSpec): __check_constraints returns True exactly when no non-zero
\* digit occurs twice in a row, a column or a box, and leaves the grid as it
\* was.
C10_CheckerCorrect ==
    pc = "checked"
        => /\ ret = NoRepeat(input)
           /\ sudoku.heap[sudoku.grid] = input

\* the checker has accepted a grid with blanks and at least three digits
C10_Witness ==
    /\ pc = "checked"
    /\ ret
    /\ HasBlank(input)
    /\ Cardinality({ c \in Rows \X Cols : Cell(input, c[1], c[2]) # 0 }) >= 3

====
